---- MODULE Spec2Model ----
(***************************************************************************)
(* Model of src/src/services/studyPlanService.ts: four asynchronous        *)
(* generation operations (study plan, chapter explanation, smart           *)
(* notification, study content) that prompt a remote endpoint once and     *)
(* fall back to locally synthesised content.                               *)
(*                                                                         *)
(* Texts are sequences of atoms.  An atom is one character (a backtick,   *)
(* " ", "\n", "7") or an indivisible run of characters (the word "json",   *)
(* a JSON literal such as "null").  The atoms are chosen so that no match  *)
(* of the three regular expressions of the source, and no JSON token,      *)
(* straddles an atom boundary except where the operators below say so.     *)
(***************************************************************************)
EXTENDS Integers, Sequences, FiniteSets, TLC

(***************************************************************************)
(* Bounds of the model.                                                    *)
(***************************************************************************)
MaxLen == 8

MaxQuestions == 3

\* The largest number of questions of the diagnostic tests whose fallback
\* study plan is examined on its own.
MaxScore == 10

(***************************************************************************)
(* Text layer: String.prototype.trim and the three replace() calls.        *)
(***************************************************************************)
\* The backtick character (U+0060), which a TLA+ string cannot hold.
BACKTICK == "BACKTICK"

\* The characters that trim() removes and that \s matches.
WhiteSpace == {" ", "\n"}

\* The spellings of the language tag that /json/i matches.
JsonTags == {"json", "JSON", "Json"}

RECURSIVE trimStart(_)
trimStart(s) ==
    IF s # <<>> /\ Head(s) \in WhiteSpace THEN trimStart(Tail(s)) ELSE s

RECURSIVE trimEnd(_)
trimEnd(s) ==
    IF s # <<>> /\ s[Len(s)] \in WhiteSpace
    THEN trimEnd(SubSeq(s, 1, Len(s) - 1))
    ELSE s

\* trim that removes leading white space only.
TrimStartOnly(s) == trimStart(s)

trim(s) == trimEnd(trimStart(s))

\* s begins with three backtick characters.
StartsWithFence(s) ==
    /\ Len(s) >= 3
    /\ s[1] = BACKTICK /\ s[2] = BACKTICK /\ s[3] = BACKTICK

\* s ends with three backtick characters.
EndsWithFence(s) ==
    /\ Len(s) >= 3
    /\ s[Len(s)] = BACKTICK /\ s[Len(s) - 1] = BACKTICK /\ s[Len(s) - 2] = BACKTICK

\* text.replace(/^FENCEjson\s*/i, ''), FENCE being three backticks.
ReplaceJsonFence(s) ==
    IF StartsWithFence(s) /\ Len(s) >= 4 /\ s[4] \in JsonTags
    THEN trimStart(SubSeq(s, 5, Len(s)))
    ELSE s

\* text.replace(/^FENCE\s*/i, '')
ReplaceLeadingFence(s) ==
    IF StartsWithFence(s) THEN trimStart(SubSeq(s, 4, Len(s))) ELSE s

\* ReplaceTrailingFence without its replacement: the trailing marker stays.
KeepTrailingFence(s) == s

\* text.replace(/FENCE$/i, '')
ReplaceTrailingFence(s) ==
    IF EndsWithFence(s) THEN SubSeq(s, 1, Len(s) - 3) ELSE s

\* StripFences without the trim() that ends the chain.
StripFencesWithoutFinalTrim(text) ==
    ReplaceTrailingFence(ReplaceLeadingFence(ReplaceJsonFence(text)))

\* The chain of line 59: the three replacements, then trim().
StripFences(text) ==
    trim(ReplaceTrailingFence(ReplaceLeadingFence(ReplaceJsonFence(text))))

\* Lines 58-59 (and 250-251): content.trim(), then the chain of line 59.
Extract(content) == StripFences(trim(content))

(***************************************************************************)
(* JavaScript values, tagged by their type.  A string value holds a text.  *)
(***************************************************************************)
Undefined == [t |-> "undefined"]

Null == [t |-> "null"]

Num(n) == [t |-> "number", n |-> n]

Str(s) == [t |-> "string", s |-> s]

Arr(items) == [t |-> "array", items |-> items]

Obj(props) == [t |-> "object", props |-> props]

\* An array of one-atom strings.
StrList(names) == Arr([i \in 1..Len(names) |-> Str(<<names[i]>>)])

\* Truthy as a test against null and undefined only (content != null).
TruthyUnlessNullish(v) == v.t \notin {"undefined", "null"}

\* ToBoolean, as the if statements of lines 57, 128, 184 and 249 apply it.
Truthy(v) ==
    CASE v.t \in {"undefined", "null"} -> FALSE
      [] v.t = "number" -> v.n # 0
      [] v.t = "string" -> v.s # <<>>
      [] OTHER -> TRUE

\* v?.name
OptProp(v, name) ==
    IF v.t = "object" /\ name \in DOMAIN v.props THEN v.props[name] ELSE Undefined

\* v?.[0]
OptFirst(v) ==
    CASE v.t = "array" /\ Len(v.items) >= 1 -> v.items[1]
      [] v.t = "string" /\ Len(v.s) >= 1 -> Str(<<v.s[1]>>)
      [] OTHER -> Undefined

\* data?.choices?.[0]?.message?.content
ContentOf(data) ==
    OptProp(OptProp(OptFirst(OptProp(data, "choices")), "message"), "content")

(***************************************************************************)
(* JSON.parse on the texts the model can form.  A JSON text is one literal *)
(* atom or a run of the digit 7, with optional white space around it.      *)
(***************************************************************************)
\* A StudyPlan object as the prompt of lines 27-34 asks for it.
PlanObject(id, minutes, level) ==
    Obj([chapter_id |-> Str(<<id>>),
         prerequisites |-> StrList(<<"concept1", "concept2">>),
         recommended_practice |-> StrList(<<"practice1", "practice2", "practice3">>),
         estimated_time |-> Num(minutes),
         difficulty_level |-> Str(<<level>>)])

SectionKeys == {"Introduction", "Core Concepts", "Problem Solving", "Practice & Review"}

\* The literal atoms and the value each denotes.
JsonLiteral ==
    [a \in {"null", "[]", "{}", "PLAN_ch1_90_advanced", "PLAN_ch2_60_beginner",
            "PLAN_ch1_0_expert", "PLAN_no_fields_but_id", "SECTIONS", "SECTIONS_intro_only"} |->
        CASE a = "null" -> Null
          [] a = "[]" -> Arr(<<>>)
          [] a = "{}" -> Obj(<<>>)
          [] a = "PLAN_ch1_90_advanced" -> PlanObject("ch1", 90, "advanced")
          [] a = "PLAN_ch2_60_beginner" -> PlanObject("ch2", 60, "beginner")
          [] a = "PLAN_ch1_0_expert" -> PlanObject("ch1", 0, "expert")
          [] a = "PLAN_no_fields_but_id" -> Obj([chapter_id |-> Str(<<"ch1">>)])
          [] a = "SECTIONS" -> Obj([k \in SectionKeys |-> Str(<<"generated ", k>>)])
          [] a = "SECTIONS_intro_only" -> Obj([k \in {"Introduction"} |-> Str(<<"generated ", k>>)])]

DIGIT == "7"

RECURSIVE DecimalValue(_)
DecimalValue(s) ==
    IF s = <<>> THEN 0 ELSE 10 * DecimalValue(SubSeq(s, 1, Len(s) - 1)) + 7

\* JSON.parse(text): [ok |-> TRUE, value |-> v], or [ok |-> FALSE] for a SyntaxError.
JSONParse(text) ==
    LET t == trim(text)
    IN  IF Len(t) = 1 /\ t[1] \in DOMAIN JsonLiteral
        THEN [ok |-> TRUE, value |-> JsonLiteral[t[1]]]
        ELSE IF t # <<>> /\ \A i \in 1..Len(t) : t[i] = DIGIT
        THEN [ok |-> TRUE, value |-> Num(DecimalValue(t))]
        ELSE [ok |-> FALSE]

(***************************************************************************)
(* Module constants and the chapter catalog.                               *)
(***************************************************************************)
GROQ_PROXY_URL == "http://localhost:3001/api/groq-chat"

MODEL_NAME == "openai/gpt-oss-20b"

\* ../data/chapters.json: Chapter records { id, chapter, topics }.
chaptersData ==
    << [id |-> "ch1", chapter |-> "Fractions", topics |-> <<"halves", "thirds">>],
       [id |-> "ch2", chapter |-> "Algebra", topics |-> <<>>] >>

\* find with a default: the first chapter stands in for a missing one.
findOrFirst(chapterId) ==
    LET hits == {i \in 1..Len(chaptersData) : chaptersData[i].id = chapterId}
    IN  [found |-> TRUE,
         chapter |-> chaptersData[IF hits = {} THEN 1
                                  ELSE CHOOSE i \in hits : \A j \in hits : i <= j]]

\* chaptersData.find(c => c.id === chapterId): the first match, or undefined.
find(chapterId) ==
    LET hits == {i \in 1..Len(chaptersData) : chaptersData[i].id = chapterId}
    IN  IF hits = {}
        THEN [found |-> FALSE]
        ELSE [found |-> TRUE,
              chapter |-> chaptersData[CHOOSE i \in hits : \A j \in hits : i <= j]]

\* Array.prototype.join(', ') on a list of one-atom strings.
RECURSIVE join(_)
join(list) ==
    IF list = <<>> THEN <<>>
    ELSE IF Len(list) = 1 THEN <<list[1]>>
    ELSE <<list[1], ", ">> \o join(Tail(list))

\* x || alt on strings: the empty string is falsy.
OrElse(text, alt) == IF text # <<>> THEN text ELSE alt

\* A default parameter value: an omitted (undefined) argument takes it.
WithDefault(arg, default) == IF arg.given THEN arg.list ELSE default

(***************************************************************************)
(* PromptBuilder: the interpolated slots of each template literal, in the  *)
(* order of the template.  The fixed text between the slots is left out.   *)
(***************************************************************************)
\* Lines 18-41.
StudyPlanPrompt(chapter, chapterId, diagnosticResult) ==
    [template |-> "study plan",
     chapter |-> <<chapter.chapter>>,
     topics |-> join(chapter.topics),
     strengths |-> join(diagnosticResult.strengths),
     weaknesses |-> join(diagnosticResult.weaknesses),
     gaps |-> join(diagnosticResult.gaps),
     score |-> diagnosticResult.score,
     total_questions |-> diagnosticResult.total_questions,
     chapter_id |-> <<chapterId>>]

\* Lines 98-112.
ExplanationPrompt(topic, studentLevel) ==
    [template |-> "explanation",
     topic |-> <<topic>>,
     studentLevel |-> <<studentLevel>>]

\* Lines 151-168.
NotificationPrompt(recentActivity) ==
    [template |-> "notification",
     recentActivity |-> join(recentActivity)]

\* Lines 211-235.
StudyContentPrompt(chapterName, userLevel, userWeaknesses, userStrengths) ==
    [template |-> "study content",
     chapter |-> <<chapterName>>,
     userLevel |-> <<userLevel>>,
     strengths |-> OrElse(join(userStrengths), <<"Building foundation">>),
     weaknesses |-> OrElse(join(userWeaknesses), <<"None identified">>)]

\* The argument of fetch(): the URL and the JSON.stringify-ed body.
Request(prompt) ==
    [url |-> GROQ_PROXY_URL,
     method |-> "POST",
     model |-> MODEL_NAME,
     messages |-> << [role |-> "user", content |-> prompt] >>]

(***************************************************************************)
(* FallbackSynthesizer.                                                    *)
(***************************************************************************)
SliceEnd == 3

BeginnerMinutes == 180

OtherMinutes == 120

\* slice with an end index that is included.
sliceThroughEnd(list, end) == SubSeq(list, 1, IF Len(list) < end + 1 THEN Len(list) ELSE end + 1)

\* gaps.slice(0, 3)
slice(list, end) == SubSeq(list, 1, IF Len(list) < end THEN Len(list) ELSE end)

\* The comparison with a quotient by zero taken for Infinity, whatever the
\* dividend.
QuotientWithZeroDivisorInfinite(score, total) ==
    IF total = 0 THEN TRUE ELSE 10 * score >= 7 * total

\* The comparison made with > in place of >=.
QuotientAboveSevenTenths(score, total) ==
    IF total = 0 THEN score > 0 ELSE 10 * score > 7 * total

\* score / total_questions >= 0.7 in IEEE-754 doubles.  x/0 is Infinity for
\* x > 0, -Infinity for x < 0 and NaN for x = 0, and NaN >= 0.7 is false.  For
\* a non-zero divisor the correctly rounded quotient compares with the double
\* 0.7 as the exact quotient compares with 7/10 (the operands are small).
QuotientAtLeastSevenTenths(score, total) ==
    IF total = 0 THEN score > 0
    ELSE IF total > 0 THEN 10 * score >= 7 * total
    ELSE 10 * score <= 7 * total

\* Lines 70-72.
prerequisites(diagnosticResult) ==
    IF Len(diagnosticResult.gaps) > 0
    THEN slice(diagnosticResult.gaps, SliceEnd)
    ELSE <<"Basic arithmetic", "Number concepts">>

\* Lines 74-76.
difficultyLevel(diagnosticResult) ==
    IF QuotientAtLeastSevenTenths(diagnosticResult.score, diagnosticResult.total_questions)
    THEN "intermediate"
    ELSE "beginner"

\* Lines 78-89.
FallbackStudyPlan(chapterId, diagnosticResult) ==
    Obj([chapter_id |-> Str(<<chapterId>>),
         prerequisites |-> StrList(prerequisites(diagnosticResult)),
         recommended_practice |->
             StrList(<<"Complete 10 practice problems daily",
                       "Review concept explanations",
                       "Take mini-quizzes to test understanding",
                       "Practice with real-world examples">>),
         estimated_time |->
             Num(IF difficultyLevel(diagnosticResult) = "beginner"
                 THEN BeginnerMinutes ELSE OtherMinutes),
         difficulty_level |-> Str(<<difficultyLevel(diagnosticResult)>>)])

\* Lines 137-143 (the emoji are left out of the atoms).
FallbackExplanation(topic) ==
    Str(<<"Let's explore ", topic, " together! [...] You're on an exciting journey of discovery!">>)

\* Lines 193-198.
fallbackNotifications ==
    << <<"You're making great progress! Keep up the amazing work!">>,
       <<"Ready for your next challenge? Let's keep learning!">>,
       <<"Fantastic effort today! Tomorrow brings new discoveries!">>,
       <<"You're on fire! Your dedication is paying off!">> >>

\* Math.floor(Math.random() * fallbackNotifications.length)
RandomIndexes == 0..(Len(fallbackNotifications) - 1)

\* Line 200.
FallbackNotification(k) == Str(fallbackNotifications[k + 1])

\* Lines 265-270.
FallbackStudyContent(chapterName, userWeaknesses, userStrengths) ==
  Obj(
    ("Introduction" :>
        Str(<<"Welcome to ", chapterName, "! [...] ">> \o
            (IF Len(userStrengths) > 0
             THEN <<"Your strength in ", userStrengths[1], " will be very helpful here!">>
             ELSE <<"We'll start with the basics and build up your understanding step by step.">>)
            \o <<" Get ready for an amazing learning adventure!">>))
    @@ ("Core Concepts" :>
        Str(<<"Let's dive into the heart of ", chapterName, "! [...] ">> \o
            (IF Len(userWeaknesses) > 0
             THEN <<"Don't worry about ", userWeaknesses[1], " - we'll work on that together!">>
             ELSE <<"You're well-prepared for these concepts!">>)
            \o <<" Remember, every expert was once a beginner. [...]">>))
    @@ ("Problem Solving" :>
        Str(<<"Now for the exciting part - solving problems! [...] You've got this! [...]">>))
    @@ ("Practice & Review" :>
        Str(<<"Time to reinforce your learning! [...] ">> \o
            (IF Len(userStrengths) > 0
             THEN <<"Use your strength in ", userStrengths[1], " to build confidence!">>
             ELSE <<"Focus on understanding rather than memorizing.">>)
            \o <<" Celebrate every small win - you're making amazing progress!">>))
  )

(***************************************************************************)
(* The inputs callers pass and the outcomes the endpoint produces.         *)
(***************************************************************************)
\* Two catalogued chapter ids and one that the catalog does not hold.
ChapterIdInputs == {"ch1", "ch2", "ch9"}

Levels == {"beginner", "intermediate", "advanced"}

\* The prefixes of a list.
Prefixes(list) == {SubSeq(list, 1, n) : n \in 0..Len(list)}

StrengthLists == Prefixes(<<"addition">>)

WeaknessLists == Prefixes(<<"fractions">>)

GapLists == Prefixes(<<"long division", "carrying", "place value", "borrowing">>)

ActivityLists == Prefixes(<<"quiz 1", "lesson 2">>)

\* DiagnosticResult, with 0 <= score <= total_questions.
DiagnosticResults ==
    {d \in [strengths : StrengthLists, weaknesses : WeaknessLists, gaps : GapLists,
            score : 0..MaxQuestions, total_questions : 0..MaxQuestions] :
        d.score <= d.total_questions}

\* An argument that has a default value: passed or omitted.
Optional(lists) == {[given |-> FALSE]} \cup {[given |-> TRUE, list |-> l] : l \in lists}

StudyPlanCalls ==
    {[op |-> "studyPlan", chapterId |-> id, diagnosticResult |-> d] :
        id \in ChapterIdInputs, d \in DiagnosticResults}

ExplanationCalls ==
    {[op |-> "explanation", chapterId |-> id, topic |-> tp, studentLevel |-> lv] :
        id \in ChapterIdInputs, tp \in {"fractions", "equations"}, lv \in Levels}

NotificationCalls ==
    {[op |-> "notification", recentActivity |-> a] : a \in ActivityLists}

StudyContentCalls ==
    {[op |-> "studyContent", chapterId |-> id, chapterName |-> nm, userLevel |-> lv,
      userWeaknesses |-> w, userStrengths |-> st] :
        id \in {"ch1"}, nm \in {"Fractions", "Algebra"}, lv \in Levels,
        w \in Optional(WeaknessLists), st \in Optional(StrengthLists)}

FENCE == <<BACKTICK, BACKTICK, BACKTICK>>

\* What may surround the payload of a response content: <<before, after>>.
Wrappers ==
    { << <<>>, <<>> >>,
      << FENCE \o <<"json", "\n">>, <<"\n">> \o FENCE >>,
      << FENCE \o <<"JSON", " ">>, FENCE >>,
      << <<" ">> \o FENCE \o <<"Json", "\n">>, <<"\n">> \o FENCE \o <<"\n">> >>,
      << FENCE \o <<"\n">>, <<"\n">> \o FENCE >>,
      << FENCE, FENCE >>,
      << FENCE \o <<"python", "\n">>, <<"\n">> \o FENCE >>,
      << FENCE \o <<"json", "\n">>, <<>> >>,
      << FENCE \o <<"\n">> \o FENCE \o <<"json", "\n">>, <<"\n">> \o FENCE \o <<"\n">> \o FENCE >>,
      << <<"Sure:", "\n">> \o FENCE \o <<"json", "\n">>, <<"\n">> \o FENCE >> }

\* The payloads: JSON texts of the right and of the wrong shape, and texts
\* that are no JSON.
Payloads ==
    { <<"PLAN_ch1_90_advanced">>, <<"PLAN_ch1_0_expert">>, <<"PLAN_no_fields_but_id">>,
      <<"SECTIONS">>, <<"SECTIONS_intro_only">>, <<"null">>, <<"[]">>, <<"{}">>,
      <<DIGIT>>, <<DIGIT, DIGIT>>,
      <<"x">>, <<"{}", "x">>, <<>>, <<" ">> }

Contents == {w[1] \o p \o w[2] : w \in Wrappers, p \in Payloads}

\* The success envelope: { choices: [ { message: { role, content } } ] }.
Envelope(content) ==
    Obj([choices |->
        Arr(<< Obj([message |-> Obj([role |-> Str(<<"assistant">>), content |-> content])]) >>)])

\* What response.json() may resolve with.
Datas ==
    { Null, Num(DecimalValue(<<DIGIT>>)), Obj(<<>>),
      Obj([error |-> Str(<<"rate limited">>)]),
      Obj([choices |-> Arr(<<>>)]),
      Obj([choices |-> Str(<<"x">>)]),
      Obj([choices |-> Arr(<< Obj(<<>>) >>)]),
      Obj([choices |-> Arr(<< Obj([message |-> Obj([role |-> Str(<<"assistant">>)])]) >>)]),
      Envelope(Null), Envelope(Str(<<>>)), Envelope(Num(0)),
      Envelope(Num(DecimalValue(<<DIGIT>>))), Envelope(Arr(<<>>)) }
    \cup {Envelope(Str(c)) : c \in Contents \ {<<>>}}

\* What the body read may settle with: a rejection (the body is no JSON), or data.
Bodies == {[kind |-> "malformed"]} \cup {[kind |-> "json", data |-> d] : d \in Datas}

Statuses == {200, 404, 500}

\* IsOk as a test for server errors only: a 404 passes.
IsOkBelow500(status) == status < 500

\* Response.ok
IsOk(status) == 200 <= status /\ status <= 299

(***************************************************************************)
(* State.  Each invocation c of an operation has its own entry in every    *)
(* variable: the module keeps no state between or across invocations.      *)
(***************************************************************************)
VARIABLES
    pc,          \* c -> "Start", "Requesting" (awaiting fetch), "ReadingBody"
                 \*      (awaiting response.json()), "Done" (promise resolved),
                 \*      "Rejected" (promise rejected)
    invocation,  \* c -> the operation called and its arguments
    requests,    \* c -> the requests handed to fetch(), in order
    response,    \* c -> what fetch() settled with, "pending" before
    parses,      \* c -> the number of JSON.parse calls made
    console,     \* c -> the console.error labels written
    result,      \* c -> what the returned promise settled with
    caller,      \* c -> the calls the caller may make as invocation c
    mock,        \* c -> the outcomes the endpoint may produce for invocation c
    raw,         \* extraction harness: the text the extraction is applied to
    cleaned      \* extraction harness: the successive results of Extract

vars == <<pc, invocation, requests, response, parses, console, result, caller, mock, raw, cleaned>>

harness == <<caller, mock, raw, cleaned>>

\* The names invocations go by.
Ids == {"a", "b"}

\* Invocation c exists and is at the given point of its code.
At(c, point) == c \in DOMAIN pc /\ pc[c] = point

AllCalls == StudyPlanCalls \cup ExplanationCalls \cup NotificationCalls \cup StudyContentCalls

\* The calls the caller may make as invocation c.
Workload(c) == IF caller[c].kind = "any" THEN AllCalls ELSE {caller[c].call}

\* Whether fetch() may reject for invocation c.
MayReject(c) == IF mock[c].kind = "any" THEN TRUE ELSE mock[c].outcome.kind = "reject"

\* The statuses fetch() may resolve with for invocation c.
StatusesOf(c) ==
    IF mock[c].kind = "any" THEN Statuses
    ELSE IF mock[c].outcome.kind = "response" THEN {mock[c].outcome.status}
    ELSE {}

\* What response.json() may settle with for invocation c.
BodiesOf(c) ==
    IF mock[c].kind = "any" THEN Bodies
    ELSE IF mock[c].outcome.kind = "response" THEN {mock[c].outcome.body}
    ELSE {}

NoResult == [kind |-> "none"]

Generated(value) == [kind |-> "resolved", source |-> "generated", value |-> value]

FromFallback(value) == [kind |-> "resolved", source |-> "fallback", value |-> value]

Thrown(message) == [kind |-> "error", message |-> message]

\* Fallback with the two lists of the study content passed in each other's
\* place.
FallbackWithListsSwapped(call, k) ==
    CASE call.op = "studyPlan" -> FallbackStudyPlan(call.chapterId, call.diagnosticResult)
      [] call.op = "explanation" -> FallbackExplanation(call.topic)
      [] call.op = "notification" -> FallbackNotification(k)
      [] call.op = "studyContent" ->
            FallbackStudyContent(call.chapterName,
                                 WithDefault(call.userStrengths, <<>>),
                                 WithDefault(call.userWeaknesses, <<>>))

\* The fallback value of a call; k is the random index, which only the
\* notification reads.
Fallback(call, k) ==
    CASE call.op = "studyPlan" -> FallbackStudyPlan(call.chapterId, call.diagnosticResult)
      [] call.op = "explanation" -> FallbackExplanation(call.topic)
      [] call.op = "notification" -> FallbackNotification(k)
      [] call.op = "studyContent" ->
            FallbackStudyContent(call.chapterName,
                                 WithDefault(call.userWeaknesses, <<>>),
                                 WithDefault(call.userStrengths, <<>>))

\* The label of the console.error call in the catch clause of each operation.
CatchLabel(op) ==
    CASE op = "studyPlan" -> "Error generating study plan:"
      [] op = "explanation" -> "Error generating explanation:"
      [] op = "notification" -> "Error generating notification:"
      [] op = "studyContent" -> "Error generating personalized study content:"

\* ReturnFallback with a catch clause that throws the error on to the caller.
RethrowFromCatch(c, labels) ==
    /\ console' = [console EXCEPT ![c] = console[c] \o labels]
    /\ IF labels # <<>>
       THEN /\ result' = [result EXCEPT ![c] = Thrown(labels[1])]
            /\ pc' = [pc EXCEPT ![c] = "Rejected"]
       ELSE /\ \E k \in RandomIndexes :
                 result' = [result EXCEPT ![c] = FromFallback(Fallback(invocation[c], k))]
            /\ pc' = [pc EXCEPT ![c] = "Done"]

\* ReturnFallback reading its arguments from a variable of the module that
\* every call overwrites: the fallback is built from the arguments of any
\* invocation made so far.
ReturnFallbackOfShared(c, labels) ==
    /\ \E k \in RandomIndexes, d \in DOMAIN invocation :
          /\ invocation[d].op # "none"
          /\ result' = [result EXCEPT ![c] = FromFallback(Fallback(invocation[d], k))]
    /\ console' = [console EXCEPT ![c] = console[c] \o labels]
    /\ pc' = [pc EXCEPT ![c] = "Done"]

\* Control falls out of the try statement to the fallback code, which returns.
ReturnFallback(c, labels) ==
    /\ \E k \in RandomIndexes : result' = [result EXCEPT ![c] = FromFallback(Fallback(invocation[c], k))]
    /\ console' = [console EXCEPT ![c] = console[c] \o labels]
    /\ pc' = [pc EXCEPT ![c] = "Done"]

\* The call of fetch() and the suspension on its promise.
SendRequest(c, call, prompt) ==
    /\ invocation' = [invocation EXCEPT ![c] = call]
    /\ requests' = [requests EXCEPT ![c] = Append(requests[c], Request(prompt))]
    /\ response' = [response EXCEPT ![c] = [kind |-> "pending"]]
    /\ pc' = [pc EXCEPT ![c] = "Requesting"]
    /\ UNCHANGED <<parses, console, result, harness>>

(***************************************************************************)
(* The operations, up to the suspension on fetch().                        *)
(***************************************************************************)
\* Lines 7-52: the catalog lookup, the throw, the prompt and the request.
generatePersonalizedStudyPlan(c) ==
    /\ At(c, "Start")
    /\ \E call \in Workload(c) :
        /\ call.op = "studyPlan"
        /\ LET chapter == find(call.chapterId)
           IN  IF ~chapter.found
               THEN /\ invocation' = [invocation EXCEPT ![c] = call]
                    /\ result' = [result EXCEPT ![c] = Thrown("Chapter not found")]
                    /\ pc' = [pc EXCEPT ![c] = "Rejected"]
                    /\ UNCHANGED <<requests, response, parses, console, harness>>
               ELSE SendRequest(c, call,
                        StudyPlanPrompt(chapter.chapter, call.chapterId, call.diagnosticResult))

\* Lines 92-123.
generateChapterExplanation(c) ==
    /\ At(c, "Start")
    /\ \E call \in Workload(c) :
        /\ call.op = "explanation"
        /\ SendRequest(c, call, ExplanationPrompt(call.topic, call.studentLevel))

\* Lines 146-179.
generateSmartNotification(c) ==
    /\ At(c, "Start")
    /\ \E call \in Workload(c) :
        /\ call.op = "notification"
        /\ SendRequest(c, call, NotificationPrompt(call.recentActivity))

\* Lines 203-244.
generatePersonalizedStudyContent(c) ==
    /\ At(c, "Start")
    /\ \E call \in Workload(c) :
        /\ call.op = "studyContent"
        /\ SendRequest(c, call,
               StudyContentPrompt(call.chapterName, call.userLevel,
                                  WithDefault(call.userWeaknesses, <<>>),
                                  WithDefault(call.userStrengths, <<>>)))

(***************************************************************************)
(* The continuations after each await.  The first three are the same code  *)
(* in the four operations (lines 43-67, 114-134, 170-190, 237-262).        *)
(***************************************************************************)
\* FetchRejected with one retry: the first rejection sends the request again.
FetchRejectedWithRetry(c) ==
    /\ At(c, "Requesting")
    /\ MayReject(c)
    /\ IF Len(requests[c]) < 2
       THEN /\ requests' = [requests EXCEPT ![c] = Append(requests[c], requests[c][1])]
            /\ UNCHANGED <<pc, invocation, response, parses, console, result, harness>>
       ELSE /\ response' = [response EXCEPT ![c] = [kind |-> "rejected"]]
            /\ ReturnFallback(c, <<CatchLabel(invocation[c].op)>>)
            /\ UNCHANGED <<invocation, requests, parses, harness>>

\* await fetch() throws: the catch clause logs, the fallback is returned.
FetchRejected(c) ==
    /\ At(c, "Requesting")
    /\ MayReject(c)
    /\ response' = [response EXCEPT ![c] = [kind |-> "rejected"]]
    /\ ReturnFallback(c, <<CatchLabel(invocation[c].op)>>)
    /\ UNCHANGED <<invocation, requests, parses, harness>>

\* await fetch() yields a response: if (response.ok) the body is read,
\* otherwise control falls through to the fallback.
FetchResolved(c) ==
    /\ At(c, "Requesting")
    /\ \E status \in StatusesOf(c) :
        /\ response' = [response EXCEPT ![c] =
               [kind |-> "response", status |-> status, body |-> [kind |-> "unread"]]]
        /\ IF IsOk(status)
           THEN /\ pc' = [pc EXCEPT ![c] = "ReadingBody"]
                /\ UNCHANGED <<console, result>>
           ELSE ReturnFallback(c, <<>>)
    /\ UNCHANGED <<invocation, requests, parses, harness>>

\* await response.json() throws: the catch clause logs, the fallback is returned.
JsonRejected(c) ==
    /\ At(c, "ReadingBody")
    /\ [kind |-> "malformed"] \in BodiesOf(c)
    /\ response' = [response EXCEPT ![c].body = [kind |-> "malformed"]]
    /\ ReturnFallback(c, <<CatchLabel(invocation[c].op)>>)
    /\ UNCHANGED <<invocation, requests, parses, harness>>

\* Lines 55-67: the content test, the extraction, JSON.parse and the return;
\* a TypeError of trim() or a SyntaxError of JSON.parse lands in the catch.
StudyPlanData(c) ==
    /\ At(c, "ReadingBody")
    /\ invocation[c].op = "studyPlan"
    /\ \E body \in BodiesOf(c) :
        /\ body.kind = "json"
        /\ response' = [response EXCEPT ![c].body = body]
        /\ LET content == ContentOf(body.data)
           IN  IF ~Truthy(content)
               THEN ReturnFallback(c, <<>>) /\ UNCHANGED parses
               ELSE IF content.t # "string"
               THEN ReturnFallback(c, <<CatchLabel("studyPlan")>>) /\ UNCHANGED parses
               ELSE LET studyPlan == JSONParse(Extract(content.s))
                    IN  /\ parses' = [parses EXCEPT ![c] = parses[c] + 1]
                        /\ IF studyPlan.ok
                           THEN /\ result' = [result EXCEPT ![c] = Generated(studyPlan.value)]
                                /\ pc' = [pc EXCEPT ![c] = "Done"]
                                /\ UNCHANGED console
                           ELSE ReturnFallback(c, <<CatchLabel("studyPlan")>>)
    /\ UNCHANGED <<invocation, requests, harness>>

\* Lines 126-134: the content test and the return of the trimmed content.
ExplanationData(c) ==
    /\ At(c, "ReadingBody")
    /\ invocation[c].op = "explanation"
    /\ \E body \in BodiesOf(c) :
        /\ body.kind = "json"
        /\ response' = [response EXCEPT ![c].body = body]
        /\ LET content == ContentOf(body.data)
           IN  IF ~Truthy(content)
               THEN ReturnFallback(c, <<>>)
               ELSE IF content.t # "string"
               THEN ReturnFallback(c, <<CatchLabel("explanation")>>)
               ELSE /\ result' = [result EXCEPT ![c] = Generated(Str(trim(content.s)))]
                    /\ pc' = [pc EXCEPT ![c] = "Done"]
                    /\ UNCHANGED console
    /\ UNCHANGED <<invocation, requests, parses, harness>>

\* Lines 182-190.
NotificationData(c) ==
    /\ At(c, "ReadingBody")
    /\ invocation[c].op = "notification"
    /\ \E body \in BodiesOf(c) :
        /\ body.kind = "json"
        /\ response' = [response EXCEPT ![c].body = body]
        /\ LET content == ContentOf(body.data)
           IN  IF ~Truthy(content)
               THEN ReturnFallback(c, <<>>)
               ELSE IF content.t # "string"
               THEN ReturnFallback(c, <<CatchLabel("notification")>>)
               ELSE /\ result' = [result EXCEPT ![c] = Generated(Str(trim(content.s)))]
                    /\ pc' = [pc EXCEPT ![c] = "Done"]
                    /\ UNCHANGED console
    /\ UNCHANGED <<invocation, requests, parses, harness>>

\* Lines 247-262: as for the study plan, with JSON.parse in a try of its own,
\* whose catch logs and falls through to the fallback.
StudyContentData(c) ==
    /\ At(c, "ReadingBody")
    /\ invocation[c].op = "studyContent"
    /\ \E body \in BodiesOf(c) :
        /\ body.kind = "json"
        /\ response' = [response EXCEPT ![c].body = body]
        /\ LET content == ContentOf(body.data)
           IN  IF ~Truthy(content)
               THEN ReturnFallback(c, <<>>) /\ UNCHANGED parses
               ELSE IF content.t # "string"
               THEN ReturnFallback(c, <<CatchLabel("studyContent")>>) /\ UNCHANGED parses
               ELSE LET parsed == JSONParse(Extract(content.s))
                    IN  /\ parses' = [parses EXCEPT ![c] = parses[c] + 1]
                        /\ IF parsed.ok
                           THEN /\ result' = [result EXCEPT ![c] = Generated(parsed.value)]
                                /\ pc' = [pc EXCEPT ![c] = "Done"]
                                /\ UNCHANGED console
                           ELSE ReturnFallback(c, <<"Error parsing study content JSON:">>)
    /\ UNCHANGED <<invocation, requests, harness>>

(***************************************************************************)
(* Specifications.                                                         *)
(***************************************************************************)
\* The invocations start unmade; caller and endpoint are as given.
Begin(callers, mocks) ==
    /\ pc = [c \in DOMAIN callers |-> "Start"]
    /\ invocation = [c \in DOMAIN callers |-> [op |-> "none"]]
    /\ requests = [c \in DOMAIN callers |-> <<>>]
    /\ response = [c \in DOMAIN callers |-> [kind |-> "none"]]
    /\ parses = [c \in DOMAIN callers |-> 0]
    /\ console = [c \in DOMAIN callers |-> <<>>]
    /\ result = [c \in DOMAIN callers |-> NoResult]
    /\ caller = callers
    /\ mock = mocks

\* One invocation: any call, any behaviour of the endpoint.
Init ==
    /\ Begin([c \in {"a"} |-> [kind |-> "any"]], [c \in {"a"} |-> [kind |-> "any"]])
    /\ raw = <<>>
    /\ cleaned = <<>>

Next ==
    \/ \E c \in Ids : generatePersonalizedStudyPlan(c)
    \/ \E c \in Ids : generateChapterExplanation(c)
    \/ \E c \in Ids : generateSmartNotification(c)
    \/ \E c \in Ids : generatePersonalizedStudyContent(c)
    \/ \E c \in Ids : FetchRejected(c)
    \/ \E c \in Ids : FetchResolved(c)
    \/ \E c \in Ids : JsonRejected(c)
    \/ \E c \in Ids : StudyPlanData(c)
    \/ \E c \in Ids : ExplanationData(c)
    \/ \E c \in Ids : NotificationData(c)
    \/ \E c \in Ids : StudyContentData(c)

Spec == Init /\ [][Next]_vars

(***************************************************************************)
(* The extraction on its own: every text of at most MaxLen atoms over a    *)
(* backtick, white space, the language tag and a payload character, with   *)
(* Extract applied to it and then to its own result.                       *)
(***************************************************************************)
ExtractAlphabet == {BACKTICK, " ", "Json", "x"}

RawTexts == UNION {[1..n -> ExtractAlphabet] : n \in 0..MaxLen}

InitExtract ==
    /\ Begin(<<>>, <<>>)
    /\ raw \in RawTexts
    /\ cleaned = <<>>

\* Lines 58-59, applied to raw and then to what they gave.
ApplyExtract ==
    /\ Len(cleaned) < 2
    /\ cleaned' = Append(cleaned, Extract(IF cleaned = <<>> THEN raw ELSE cleaned[Len(cleaned)]))
    /\ UNCHANGED <<pc, invocation, requests, response, parses, console, result, caller, mock, raw>>

SpecExtract == InitExtract /\ [][ApplyExtract]_vars

(***************************************************************************)
(* Two invocations "a" and "b" of the same call, run concurrently against  *)
(* an endpoint that answers "b" as it answers "a", except that a string    *)
(* content is wrapped for "b".                                             *)
(***************************************************************************)
\* The calls of the pair: every operation, known and unknown chapters.
PairCalls ==
    {call \in AllCalls :
        CASE call.op = "studyPlan" ->
                /\ call.diagnosticResult.strengths = <<>>
                /\ call.diagnosticResult.weaknesses = <<>>
                /\ Len(call.diagnosticResult.gaps) <= 1
                /\ call.diagnosticResult.total_questions >= MaxQuestions - 1
          [] call.op = "explanation" -> call.topic = "fractions" /\ call.studentLevel = "beginner"
          [] call.op = "notification" -> call.recentActivity = <<>>
          [] call.op = "studyContent" -> call.userLevel = "beginner" /\ call.chapterName = "Fractions"}

\* An endpoint outcome fixed in advance.
Reject == [kind |-> "reject"]

Respond(status, body) == [kind |-> "response", status |-> status, body |-> body]

WithContent(text) == Respond(200, [kind |-> "json", data |-> Envelope(Str(text))])

\* <<outcome for "a", outcome for "b">>
PairOutcomes ==
    {<<Reject, Reject>>}
    \cup {<<Respond(st, [kind |-> "malformed"]), Respond(st, [kind |-> "malformed"])>> : st \in Statuses}
    \cup {<<Respond(200, [kind |-> "json", data |-> Null]),
            Respond(200, [kind |-> "json", data |-> Null])>>}
    \cup {<<WithContent(p), WithContent(w[1] \o p \o w[2])>> : p \in Payloads \ {<<>>}, w \in Wrappers}

InitPair ==
    /\ \E call \in PairCalls, o \in PairOutcomes :
          Begin([c \in Ids |-> [kind |-> "fixed", call |-> call]],
                [c \in Ids |-> [kind |-> "fixed", outcome |-> IF c = "a" THEN o[1] ELSE o[2]]])
    /\ raw = <<>>
    /\ cleaned = <<>>

SpecPair == InitPair /\ [][Next]_vars

(***************************************************************************)
(* Invocations run alone and run concurrently: one invocation, or two      *)
(* invocations "a" and "b" of calls and endpoint outcomes chosen           *)
(* independently of each other, their steps interleaved in every order.    *)
(***************************************************************************)
ConcurrentCalls ==
    {call \in PairCalls :
        CASE call.op = "studyPlan" ->
                /\ call.chapterId # "ch2"
                /\ call.diagnosticResult.gaps = <<>>
                /\ call.diagnosticResult.total_questions = MaxQuestions
                /\ call.diagnosticResult.score \in {0, MaxQuestions}
          [] call.op = "explanation" -> call.chapterId # "ch2"
          [] call.op = "notification" -> TRUE
          [] call.op = "studyContent" ->
                /\ call.chapterId # "ch2"
                /\ call.userStrengths.given
                /\ call.userWeaknesses = [given |-> FALSE]}

ConcurrentOutcomes ==
    { Reject,
      Respond(404, [kind |-> "malformed"]),
      Respond(200, [kind |-> "malformed"]),
      Respond(200, [kind |-> "json", data |-> Null]),
      WithContent(<<"SECTIONS">>),
      WithContent(<<" ", "x">>),
      WithContent(FENCE \o <<"json", "\n", "PLAN_ch2_60_beginner", "\n">> \o FENCE) }

InitConcurrent ==
    /\ \E ids \in {{"a"}, Ids} :
       \E calls \in [ids -> ConcurrentCalls], outcomes \in [ids -> ConcurrentOutcomes] :
          Begin([c \in ids |-> [kind |-> "fixed", call |-> calls[c]]],
                [c \in ids |-> [kind |-> "fixed", outcome |-> outcomes[c]]])
    /\ raw = <<>>
    /\ cleaned = <<>>

SpecConcurrent == InitConcurrent /\ [][Next]_vars

(***************************************************************************)
(* The fallback study plan over diagnostic tests of up to MaxScore         *)
(* questions: one invocation whose call and whose request outcome are      *)
(* fixed in advance.                                                       *)
(***************************************************************************)
WideDiagnosticResults ==
    {d \in [strengths : {<<>>}, weaknesses : {<<>>}, gaps : GapLists,
            score : 0..MaxScore, total_questions : 0..MaxScore] :
        d.score <= d.total_questions}

FallbackCalls ==
    {[op |-> "studyPlan", chapterId |-> "ch1", diagnosticResult |-> d] : d \in WideDiagnosticResults}
    \cup {call \in ConcurrentCalls : call.op # "studyPlan"}

InitFallback ==
    /\ \E call \in FallbackCalls, outcome \in ConcurrentOutcomes :
          Begin([c \in {"a"} |-> [kind |-> "fixed", call |-> call]],
                [c \in {"a"} |-> [kind |-> "fixed", outcome |-> outcome]])
    /\ raw = <<>>
    /\ cleaned = <<>>

SpecFallback == InitFallback /\ [][Next]_vars

(***************************************************************************)
(* The result types of ../types and of the signature of line 209.          *)
(***************************************************************************)
IsStringArray(v) ==
    v.t = "array" /\ \A i \in 1..Len(v.items) : v.items[i].t = "string"

StudyPlanFields ==
    {"chapter_id", "prerequisites", "recommended_practice", "estimated_time", "difficulty_level"}

\* StudyPlan
IsStudyPlan(v) ==
    /\ v.t = "object"
    /\ StudyPlanFields \subseteq DOMAIN v.props
    /\ v.props["chapter_id"].t = "string"
    /\ IsStringArray(v.props["prerequisites"])
    /\ IsStringArray(v.props["recommended_practice"])
    /\ v.props["estimated_time"].t = "number"
    /\ v.props["difficulty_level"].t = "string"
    /\ v.props["difficulty_level"].s \in {<<lv>> : lv \in Levels}

\* The StudyContentMap: the four sections, each a text.
IsStudyContentMap(v) ==
    /\ v.t = "object"
    /\ DOMAIN v.props = SectionKeys
    /\ \A k \in SectionKeys : v.props[k].t = "string"

\* The result type of each operation.
IsTyped(op, v) ==
    CASE op = "studyPlan" -> IsStudyPlan(v)
      [] op = "studyContent" -> IsStudyContentMap(v)
      [] OTHER -> v.t = "string"

(***************************************************************************)
(* Vocabulary of the properties.                                           *)
(***************************************************************************)
Made == {c \in DOMAIN pc : pc[c] # "Start"}

Finished == {c \in DOMAIN pc : pc[c] = "Done"}

\* The ids the catalog holds.
CatalogIds == {chaptersData[i].id : i \in 1..Len(chaptersData)}

\* The request of c failed at transport level or got a non-success status.
RequestFailed(c) ==
    \/ response[c].kind = "rejected"
    \/ response[c].kind = "response" /\ response[c].status \notin 200..299

\* The body of the success response of c has been read.
BodyRead(c) ==
    /\ response[c].kind = "response"
    /\ response[c].status \in 200..299
    /\ response[c].body.kind # "unread"

\* The response of c carries this text as its content.
HasContent(c, text) ==
    /\ BodyRead(c)
    /\ response[c].body = [kind |-> "json", data |-> Envelope(Str(text))]

\* The success response of c carries a non-empty string as its content.
HasText(c) ==
    /\ BodyRead(c)
    /\ response[c].body.kind = "json"
    /\ ContentOf(response[c].body.data).t = "string"
    /\ ContentOf(response[c].body.data).s # <<>>

ContentText(c) == ContentOf(response[c].body.data).s

\* c returned the fallback value of its own call.
ReturnedFallback(c) ==
    /\ pc[c] = "Done"
    /\ result[c].kind = "resolved"
    /\ result[c].source = "fallback"
    /\ IF invocation[c].op = "notification"
       THEN \E k \in 1..4 : result[c].value = Str(fallbackNotifications[k])
       ELSE result[c].value = Fallback(invocation[c], 0)

Structured == {"studyPlan", "studyContent"}

\* C1: a study-plan call whose chapterId the catalog does not hold fails with
\* the chapter-not-found error and sends no request.
C1_UnknownChapterThrowsWithoutRequest ==
    \A c \in Made :
        (invocation[c].op = "studyPlan" /\ invocation[c].chapterId \notin CatalogIds)
        => /\ pc[c] = "Rejected"
           /\ result[c] = [kind |-> "error", message |-> "Chapter not found"]
           /\ requests[c] = <<>>
           /\ response[c].kind = "none"

C1_Witness ==
    \E c \in Made :
        /\ invocation[c].op = "studyPlan"
        /\ invocation[c].chapterId = "ch9"
        /\ pc[c] = "Rejected"

\* C2: when the request fails at transport level or the response has a
\* non-success status, each of the four operations returns its fallback value
\* (for the notification: one of the four strings of the pool).
C2_FailedRequestGivesFallback ==
    \A c \in Made :
        RequestFailed(c) => ReturnedFallback(c)

C2_Witness ==
    \E c \in Finished :
        /\ invocation[c].op = "notification"
        /\ response[c].kind = "response" /\ response[c].status = 500
        /\ result[c] = FromFallback(Str(fallbackNotifications[4]))

\* C3: a structured operation whose success response carries content that
\* is not valid JSON after fence stripping returns its fallback value and
\* raises nothing.
C3_InvalidJsonGivesFallback ==
    \A c \in Made :
        (/\ invocation[c].op \in Structured
         /\ HasText(c)
         /\ ~JSONParse(Extract(ContentText(c))).ok)
        => ReturnedFallback(c)

C3_Witness ==
    \E c \in Finished :
        /\ invocation[c].op = "studyContent"
        /\ HasContent(c, FENCE \o <<"json", "\n", "{}", "x", "\n">> \o FENCE)
        /\ ReturnedFallback(c)
        /\ parses[c] = 1

\* C4: every StudyPlan returned for a known chapter has estimated_time > 0
\* and difficulty_level in {beginner, intermediate, advanced}, whatever the
\* endpoint did.
C4_PlanHasPositiveTimeAndKnownLevel ==
    \A c \in Finished :
        invocation[c].op = "studyPlan"
        => /\ result[c].kind = "resolved"
           /\ result[c].value.t = "object"
           /\ {"estimated_time", "difficulty_level"} \subseteq DOMAIN result[c].value.props
           /\ result[c].value.props["estimated_time"].t = "number"
           /\ result[c].value.props["estimated_time"].n > 0
           /\ result[c].value.props["difficulty_level"] \in {Str(<<lv>>) : lv \in Levels}

\* C5: every invocation (for the study plan: of a known chapter) that has
\* settled is Done with a result of its operation's type, and no invocation
\* ends with a generation or parsing failure.
C5_DoneCarriesTypedResult ==
    \A c \in Made :
        /\ pc[c] = "Rejected"
           => (invocation[c].op = "studyPlan" /\ invocation[c].chapterId \notin CatalogIds)
        /\ pc[c] = "Done"
           => (result[c].kind = "resolved" /\ IsTyped(invocation[c].op, result[c].value))

\* The wrappers that are a leading fence marker, bare or with one of the
\* tags, and a trailing fence marker, each with optional white space.
IsLeadingMarker(lead, tags) ==
    LET l == trim(lead)
    IN  l = FENCE \/ (Len(l) = 4 /\ SubSeq(l, 1, 3) = FENCE /\ l[4] \in tags)

IsTrailingMarker(trail) == trim(trail) = FENCE

Fencings(tags) ==
    {w \in Wrappers : IsLeadingMarker(w[1], tags) /\ IsTrailingMarker(w[2])}

LanguageTags == JsonTags \cup {"python"}

\* "a" received a valid JSON payload and "b" the same payload in a fencing.
PairIsFenced(tags) ==
    /\ Ids \subseteq Finished
    /\ invocation["a"].op \in Structured
    /\ \E p \in Payloads, w \in Fencings(tags) :
        /\ JSONParse(p).ok
        /\ HasContent("a", p)
        /\ HasContent("b", w[1] \o p \o w[2])

\* C6 as stated: a valid payload in a fence, with any language tag or with
\* none, gives the result the bare payload gives.
C6_AnyTagFencedParsesTheSame ==
    PairIsFenced(LanguageTags) => result["a"] = result["b"]

\* C6 amended: a valid payload in a fence, with the tag json in any letter
\* case or with no tag, gives the result the bare payload gives.
C6_JsonFencedParsesTheSame ==
    PairIsFenced(JsonTags) => result["a"] = result["b"]

C6_Witness ==
    /\ PairIsFenced(JsonTags)
    /\ invocation["a"].op = "studyPlan"
    /\ HasContent("a", <<"PLAN_ch1_90_advanced">>)
    /\ HasContent("b", <<" ">> \o FENCE \o <<"Json", "\n", "PLAN_ch1_90_advanced", "\n">> \o FENCE \o <<"\n">>)
    /\ result["b"] = Generated(PlanObject("ch1", 90, "advanced"))

\* C7 as stated: the extraction applied to its own result changes nothing.
C7_ExtractIsIdempotent ==
    Len(cleaned) = 2 => cleaned[2] = cleaned[1]

\* A second marker right behind the leading one (and its tag and white space).
RepeatsLeadingFence(u) ==
    /\ StartsWithFence(u)
    /\ LET rest == SubSeq(u, 4, Len(u))
           untagged == IF rest # <<>> /\ rest[1] \in JsonTags THEN Tail(rest) ELSE rest
       IN  StartsWithFence(trimStart(untagged))

\* A second marker right before the trailing one (and white space).
RepeatsTrailingFence(u) ==
    /\ EndsWithFence(u)
    /\ EndsWithFence(trimEnd(SubSeq(u, 1, Len(u) - 3)))

\* C7 amended: on a text that repeats neither its leading nor its trailing
\* fence marker, the extraction applied to its own result changes nothing.
C7_ExtractIsIdempotentOnSingleFences ==
    (/\ Len(cleaned) = 2
     /\ ~RepeatsLeadingFence(trim(raw))
     /\ ~RepeatsTrailingFence(trim(raw)))
    => cleaned[2] = cleaned[1]

C7_Witness ==
    /\ raw = FENCE \o <<"Json", "x">> \o FENCE
    /\ cleaned = << <<"x">>, <<"x">> >>

\* C8: a success response whose envelope is malformed, or whose content is
\* missing or empty, gives the fallback value, and JSON.parse is not called
\* on content.
C8_NoContentGivesFallbackWithoutParsing ==
    \A c \in Made :
        (/\ BodyRead(c)
         /\ \/ response[c].body.kind = "malformed"
            \/ ContentOf(response[c].body.data).t \in {"undefined", "null"}
            \/ ContentOf(response[c].body.data) = Str(<<>>))
        => (ReturnedFallback(c) /\ parses[c] = 0)

C8_Witness ==
    \E c \in Finished :
        /\ invocation[c].op = "studyContent"
        /\ HasContent(c, <<>>)
        /\ ReturnedFallback(c)
        /\ parses[c] = 0

\* C9: an invocation sends at most one request, and a fallback value is
\* returned only once that request has settled.
C9_OneRequestSettledBeforeFallback ==
    \A c \in DOMAIN pc :
        /\ Len(requests[c]) <= 1
        /\ pc[c] \in {"Requesting", "ReadingBody", "Done"} => Len(requests[c]) = 1
        /\ (result[c].kind = "resolved" /\ result[c].source = "fallback")
           => /\ response[c].kind \in {"rejected", "response"}
              /\ pc[c] = "Done"

C9_Witness ==
    \E c \in Finished :
        /\ invocation[c].op = "studyPlan"
        /\ HasContent(c, <<"x">>)
        /\ result[c].source = "fallback"
        /\ Len(requests[c]) = 1
        /\ console[c] = <<"Error generating study plan:">>

\* C10: a structured operation whose success response carries valid JSON of
\* the wrong shape returns its fallback value, not the payload.
C10_WrongShapeGivesFallback ==
    \A c \in Made :
        (/\ invocation[c].op \in Structured
         /\ HasText(c)
         /\ JSONParse(Extract(ContentText(c))).ok
         /\ ~IsTyped(invocation[c].op, JSONParse(Extract(ContentText(c))).value))
        => ReturnedFallback(c)

FreeText == {"explanation", "notification"}

\* r is text with its leading and trailing white space removed and nothing
\* else changed.
IsTrimmed(r, text) ==
    /\ r = <<>> \/ (r[1] \notin WhiteSpace /\ r[Len(r)] \notin WhiteSpace)
    /\ \E i \in 1..(Len(text) + 1) :
        /\ i + Len(r) - 1 <= Len(text)
        /\ r = SubSeq(text, i, i + Len(r) - 1)
        /\ \A j \in 1..Len(text) : (j < i \/ j >= i + Len(r)) => text[j] \in WhiteSpace

\* C11 as stated: a free-text operation that receives non-empty content
\* returns the content with white space trimmed and fence markers stripped.
C11_FreeTextReturnsExtractedContent ==
    \A c \in Finished :
        (invocation[c].op \in FreeText /\ HasText(c))
        => result[c] = [kind |-> "resolved", source |-> "generated",
                        value |-> Str(Extract(ContentText(c)))]

\* C11 amended: a free-text operation that receives non-empty content
\* returns the content with its leading and trailing white space trimmed and
\* nothing else changed; fence markers stay.
C11_FreeTextReturnsTrimmedContent ==
    \A c \in Finished :
        (invocation[c].op \in FreeText /\ HasText(c))
        => /\ result[c].kind = "resolved"
           /\ result[c].source = "generated"
           /\ result[c].value.t = "string"
           /\ IsTrimmed(result[c].value.s, ContentText(c))

C11_Witness ==
    \E c \in Finished :
        /\ invocation[c].op = "explanation"
        /\ HasContent(c, <<" ">> \o FENCE \o <<"Json", "\n", "x", "\n">> \o FENCE \o <<"\n">>)
        /\ result[c].value = Str(FENCE \o <<"Json", "\n", "x", "\n">> \o FENCE)

\* What a call settles with when the body of its operation is run from top
\* to bottom against the given outcome of its request: lines 12-15, 43-57,
\* 58-67 and 70-89 of the study plan, and the same lines of the other three.
SequentialResults(call, outcome) ==
    LET fallbacks == {[kind |-> "resolved", source |-> "fallback", value |-> Fallback(call, k)]
                         : k \in RandomIndexes}
    IN  IF call.op = "studyPlan" /\ call.chapterId \notin CatalogIds
        THEN {[kind |-> "error", message |-> "Chapter not found"]}
        ELSE IF outcome.kind = "reject" THEN fallbacks
        ELSE IF outcome.status < 200 \/ outcome.status > 299 THEN fallbacks
        ELSE IF outcome.body.kind # "json" THEN fallbacks
        ELSE LET content == ContentOf(outcome.body.data)
             IN  IF content.t # "string" \/ content.s = <<>> THEN fallbacks
                 ELSE IF call.op \in FreeText
                 THEN {[kind |-> "resolved", source |-> "generated",
                        value |-> Str(trim(content.s))]}
                 ELSE LET parsed == JSONParse(Extract(content.s))
                      IN  IF parsed.ok
                          THEN {[kind |-> "resolved", source |-> "generated",
                                 value |-> parsed.value]}
                          ELSE fallbacks

\* C12: whether an invocation runs alone or interleaved in any order with
\* another one, what it settles with is fixed by its own arguments and the
\* outcome of its own request.
C12_ResultAsIfRunAlone ==
    \A c \in DOMAIN pc :
        pc[c] \in {"Done", "Rejected"}
        => result[c] \in SequentialResults(caller[c].call, mock[c].outcome)

C12_Witness ==
    /\ Finished = Ids
    /\ invocation["a"].op = "studyPlan"
    /\ invocation["b"].op = "studyContent"
    /\ invocation["b"].userStrengths = [given |-> TRUE, list |-> <<"addition">>]
    /\ ReturnedFallback("a")
    /\ ReturnedFallback("b")
    /\ result["b"].value = Fallback(invocation["b"], 0)
    /\ result["a"].value = Fallback(invocation["a"], 0)

\* The invocations that returned the fallback study plan.
FellBackOnPlan ==
    {c \in Finished : /\ invocation[c].op = "studyPlan"
                      /\ result[c].kind = "resolved"
                      /\ result[c].source = "fallback"}

\* C13: the fallback study plan for a diagnostic result of no questions is
\* built without failure, with difficulty beginner and 180 minutes.
C13_NoQuestionsGivesBeginner ==
    \A c \in DOMAIN pc :
        (/\ invocation[c].op = "studyPlan"
         /\ invocation[c].chapterId \in CatalogIds
         /\ invocation[c].diagnosticResult.total_questions = 0
         /\ invocation[c].diagnosticResult.score = 0)
        => /\ pc[c] # "Rejected"
           /\ c \in FellBackOnPlan
              => /\ result[c].value.props.difficulty_level = Str(<<"beginner">>)
                 /\ result[c].value.props.estimated_time = Num(180)

C13_Witness ==
    \E c \in FellBackOnPlan :
        /\ invocation[c].diagnosticResult.total_questions = 0
        /\ invocation[c].diagnosticResult.score = 0
        /\ result[c].value.props.difficulty_level = Str(<<"beginner">>)

\* C14: the fallback study plan for a diagnostic result of at least one
\* question has difficulty intermediate exactly when score/total_questions
\* is at least 0.7 and beginner otherwise, and its estimated time is 180 for
\* beginner and 120 otherwise.
C14_LevelFromScoreRatio ==
    \A c \in FellBackOnPlan :
        LET d == invocation[c].diagnosticResult
            plan == result[c].value.props
        IN  d.total_questions > 0
            => /\ plan.difficulty_level \in {Str(<<"beginner">>), Str(<<"intermediate">>)}
               /\ plan.difficulty_level = Str(<<"intermediate">>)
                      <=> 10 * d.score >= 7 * d.total_questions
               /\ plan.estimated_time \in {Num(180), Num(120)}
               /\ plan.estimated_time = Num(180)
                      <=> plan.difficulty_level = Str(<<"beginner">>)

\* The ratio is exactly 0.7.
C14_Witness ==
    \E c \in FellBackOnPlan :
        /\ invocation[c].diagnosticResult.score = 7
        /\ invocation[c].diagnosticResult.total_questions = 10
        /\ result[c].value.props.difficulty_level = Str(<<"intermediate">>)
        /\ result[c].value.props.estimated_time = Num(120)

\* C15: the prerequisites of the fallback study plan are the first
\* min(3, |gaps|) gaps in their order when there are gaps and the two fixed
\* entries when there are none, so between one and three entries; the gaps
\* passed in are left as they were.
C15_PrerequisitesArePrefixOfGaps ==
    \A c \in FellBackOnPlan :
        LET gaps == caller[c].call.diagnosticResult.gaps
            listed == result[c].value.props.prerequisites
        IN  /\ listed.t = "array"
            /\ Len(listed.items) \in 1..3
            /\ gaps # <<>>
                  => /\ Len(listed.items) = (IF Len(gaps) < 3 THEN Len(gaps) ELSE 3)
                     /\ \A i \in 1..Len(listed.items) : listed.items[i] = Str(<<gaps[i]>>)
            /\ gaps = <<>>
                  => listed.items = <<Str(<<"Basic arithmetic">>), Str(<<"Number concepts">>)>>
            /\ invocation[c].diagnosticResult.gaps = gaps

C15_Witness ==
    \E c \in FellBackOnPlan :
        /\ Len(invocation[c].diagnosticResult.gaps) = 4
        /\ result[c].value.props.prerequisites =
               StrList(<<"long division", "carrying", "place value">>)

\* The prompts handed to fetch() so far.
PromptsSent ==
    UNION {{requests[c][i].messages[1].content : i \in 1..Len(requests[c])} : c \in Made}

\* C16 as stated: no list interpolated into a prompt that was sent is
\* rendered as the empty text; an empty list is rendered as a placeholder.
C16_NoEmptyListInPrompt ==
    \A prompt \in PromptsSent :
        CASE prompt.template = "study plan" ->
                prompt.strengths # <<>> /\ prompt.weaknesses # <<>> /\ prompt.gaps # <<>>
          [] prompt.template = "notification" -> prompt.recentActivity # <<>>
          [] prompt.template = "study content" ->
                prompt.strengths # <<>> /\ prompt.weaknesses # <<>>
          [] OTHER -> TRUE

\* The invocations that returned the fallback study content.
FellBackOnContent ==
    {c \in Finished : /\ invocation[c].op = "studyContent"
                      /\ result[c].kind = "resolved"
                      /\ result[c].source = "fallback"}

\* The text of a string value holds the atom.
Has(v, atom) == \E i \in 1..Len(v.s) : v.s[i] = atom

\* An argument as the function body sees it: [] when omitted.
ListOf(arg) == IF arg.given THEN arg.list ELSE <<>>

\* C17 as stated: the fallback study content has exactly the four keys, and
\* each section names the chapter and, when there is a strength or a
\* weakness, the first strength or the first weakness.
C17_EverySectionNamesChapterAndList ==
    \A c \in FellBackOnContent :
        LET sections == result[c].value.props
            strengths == ListOf(invocation[c].userStrengths)
            weaknesses == ListOf(invocation[c].userWeaknesses)
        IN  /\ DOMAIN sections = SectionKeys
            /\ \A key \in SectionKeys :
                /\ Has(sections[key], invocation[c].chapterName)
                /\ (strengths # <<>> \/ weaknesses # <<>>)
                   => \/ strengths # <<>> /\ Has(sections[key], strengths[1])
                      \/ weaknesses # <<>> /\ Has(sections[key], weaknesses[1])

\* C17 amended: the fallback study content has exactly the four keys.
\* Introduction and Core Concepts name the chapter, the other two do not.
\* Introduction and Practice & Review carry the first strength when there
\* is one and a default phrase otherwise; Core Concepts carries the first
\* weakness when there is one and a default phrase otherwise; Problem
\* Solving is one fixed text.
C17_SectionsByTemplate ==
    \A c \in FellBackOnContent :
        LET sections == result[c].value.props
            name == invocation[c].chapterName
            strengths == ListOf(invocation[c].userStrengths)
            weaknesses == ListOf(invocation[c].userWeaknesses)
        IN  /\ result[c].value.t = "object"
            /\ DOMAIN sections = SectionKeys
            /\ \A key \in SectionKeys : sections[key].t = "string"
            /\ Has(sections["Introduction"], name)
            /\ Has(sections["Core Concepts"], name)
            /\ ~Has(sections["Problem Solving"], name)
            /\ ~Has(sections["Practice & Review"], name)
            /\ IF strengths # <<>>
               THEN /\ Has(sections["Introduction"], strengths[1])
                    /\ Has(sections["Practice & Review"], strengths[1])
               ELSE /\ Has(sections["Introduction"],
                           "We'll start with the basics and build up your understanding step by step.")
                    /\ Has(sections["Practice & Review"],
                           "Focus on understanding rather than memorizing.")
            /\ IF weaknesses # <<>>
               THEN Has(sections["Core Concepts"], weaknesses[1])
               ELSE Has(sections["Core Concepts"], "You're well-prepared for these concepts!")
            /\ \A key \in {"Introduction", "Practice & Review"} :
                  weaknesses # <<>> => ~Has(sections[key], weaknesses[1])
            /\ strengths # <<>> => ~Has(sections["Core Concepts"], strengths[1])
            /\ sections["Problem Solving"] =
                  Str(<<"Now for the exciting part - solving problems! [...] You've got this! [...]">>)

C17_Witness ==
    \E c \in FellBackOnContent :
        /\ invocation[c].userStrengths = [given |-> TRUE, list |-> <<"addition">>]
        /\ invocation[c].userWeaknesses = [given |-> FALSE]
        /\ Has(result[c].value.props["Practice & Review"], "addition")
        /\ Has(result[c].value.props["Core Concepts"], "You're well-prepared for these concepts!")
        /\ ~Has(result[c].value.props["Problem Solving"], invocation[c].chapterName)

\* C18 as stated: a study plan that is returned, generated or fallback,
\* carries the chapterId of the call as its chapter_id.
C18_PlanCarriesChapterIdOfCall ==
    \A c \in Finished :
        (/\ invocation[c].op = "studyPlan"
         /\ result[c].kind = "resolved"
         /\ IsStudyPlan(result[c].value))
        => result[c].value.props.chapter_id = Str(<<invocation[c].chapterId>>)

\* C19 as stated: a free-text operation never resolves with the empty
\* string.
C19_FreeTextNeverEmpty ==
    \A c \in Finished :
        invocation[c].op \in FreeText
        => /\ result[c].kind = "resolved"
           /\ result[c].value.t = "string"
           /\ result[c].value.s # <<>>

(***************************************************************************)
(* Progress.  The transport settles every request and every body read, and *)
(* the event loop runs every continuation that is ready.                   *)
(***************************************************************************)
FairSpec == Spec /\ WF_vars(Next)

\* An invocation that has sent its request ends Done.
RequestLeadsToDone ==
    \A c \in Ids :
        (c \in DOMAIN pc /\ pc[c] \in {"Requesting", "ReadingBody"})
        ~> (c \in DOMAIN pc /\ pc[c] = "Done")

====
